---- MODULE Spec2Model ----
(***************************************************************************)
(* A model of the abcd data-access layer: the MongoDB query visitor        *)
(* (MongoQuery), the MongoDB and OpenSearch database wrappers and the      *)
(* histogram engine of abcd/backends/atoms_pymongo.py and                  *)
(* abcd/backends/atoms_opensearch.py.                                      *)
(***************************************************************************)
EXTENDS Integers, Sequences, FiniteSets, TLC

VARIABLES
    query,      \* the argument of the last call of the module-level parser
    lowered,    \* what that call returned or raised
    hdata,      \* the values handed to the last histogram() call
    hbins,      \* the keyword arguments of that call
    hout,       \* what that call returned or raised
    backend,    \* the backend(s) ABCD.from_url constructed
    collection_name,    \* MongoDatabase: the collection_name it was given
    mdb,        \* MongoDB: the database, collection name -> documents
    mret,       \* MongoDatabase: the last call and what it returned
    nwrites,    \* MongoDatabase: the number of writing calls made so far
    renaming,   \* MongoDatabase: the rename_property call between its two updates
    osi,        \* OpenSearch: the index, its documents and its mapping
    oret        \* OpenSearchDatabase: the last call and what it returned

lowervars == <<query, lowered>>
histvars == <<hdata, hbins, hout>>
mongovars == <<collection_name, mdb, mret, nwrites, renaming>>
osvars == <<osi, oret>>
vars ==
    <<query, lowered, hdata, hbins, hout, backend, collection_name, mdb, mret, nwrites,
      renaming, osi, oret>>

(***************************************************************************)
(* Python values.  A value carries its type, as a Python object does.      *)
(***************************************************************************)
PyBool(b) == [t |-> "bool", v |-> b]
PyInt(n) == [t |-> "int", v |-> n]
\* A str is the sequence of its characters.
PyStr(s) == [t |-> "str", v |-> s]
\* A float, held in tenths; a datetime, held as its epoch seconds.
PyFloat(n) == [t |-> "float", v |-> n]
PyDate(n) == [t |-> "date", v |-> n]
\* A dict value (a nested composite).
PyDictValue == [t |-> "dict", v |-> 0]
None == [t |-> "NoneType", v |-> 0]
\* A list, of values or of lists.
PyList(s) == [t |-> "list", v |-> s]

\* An operation either returns a value or raises an exception.
Ok(v) == [err |-> "none", val |-> v]
Raise(e) == [err |-> e]

\* The state of a variable no call has written yet.
NoCall == [kind |-> "nocall"]

(***************************************************************************)
(* The query AST: a tuple (OP, arg, ...) as MongoQuery.visit unpacks it.   *)
(* A field is ("NAME", f) and a literal (TYPE, value), which is why the    *)
(* comparison visitors read field[1] and value[1].                         *)
(***************************************************************************)
Fields == {"e", "p"}
Literals == {<<"NUMBER", PyInt(1)>>, <<"NUMBER", PyInt(2)>>, <<"STRING", PyStr(<<"a">>)>>}

Name(f) == <<"NAME", f>>
Not(n) == <<"NOT", n>>

\* The comparison tags; "NE" is the inequality node of the data model.
CmpOps == {"EQ", "NE", "GT", "GTE", "LT", "LTE", "RE"}

NameNodes == {Name(f) : f \in Fields}
CmpNodes == {<<op, Name(f), l>> : op \in CmpOps, f \in Fields, l \in Literals}
InNodes ==
    {<<"IN", Name(f), l>> : f \in Fields, l \in Literals}
        \cup {<<"IN", Name(f), <<"NUMBER", PyInt(1)>>, <<"NUMBER", PyInt(2)>>>> : f \in Fields}
LeafNodes == NameNodes \cup {Not(n) : n \in NameNodes} \cup CmpNodes \cup InNodes

\* The children an And/Or of the model combines.
ChildNodes ==
    NameNodes \cup {Not(Name("e"))}
        \cup {<<op, Name("e"), <<"NUMBER", PyInt(1)>>>> : op \in {"EQ", "NE", "GT"}}
BoolNodes ==
    {<<op, a>> : op \in {"AND", "OR"}, a \in ChildNodes}
        \cup {<<op, a, b>> : op \in {"AND", "OR"}, a \in ChildNodes, b \in ChildNodes}

\* Negations of something else than an existence test.
NotNodes ==
    {Not(n) : n \in {c \in CmpNodes : c[2] = Name("e") /\ c[3] = <<"NUMBER", PyInt(1)>>}}
        \cup {Not(n) : n \in {b \in BoolNodes : b[2] = Name("e")}}
        \cup {Not(Not(Name("e")))}

ASTs == LeafNodes \cup BoolNodes \cup NotNodes

\* The well-formed ASTs of the data model: Name, Not(Name), And, Or, the
\* comparisons, Regex and In, with And/Or holding at least one child.
WellFormed == LeafNodes \cup BoolNodes

(***************************************************************************)
(* MongoQuery                                                              *)
(***************************************************************************)
\* str.lower() on the operator tags.
lower(op) ==
    CASE op = "NAME" -> "name"
      [] op = "NOT" -> "not"
      [] op = "AND" -> "and"
      [] op = "OR" -> "or"
      [] op = "EQ" -> "eq"
      [] op = "NE" -> "ne"
      [] op = "RE" -> "re"
      [] op = "GT" -> "gt"
      [] op = "GTE" -> "gte"
      [] op = "LT" -> "lt"
      [] op = "LTE" -> "lte"
      [] op = "IN" -> "in"
      [] OTHER -> op

\* The visit_* methods the class defines.
MongoQueryMethods ==
    {"name", "not", "and", "or", "eq", "re", "gt", "gte", "lt", "lte", "in"}

\* The first error among the results of the children, in order.
FirstError(rs) ==
    LET bad == {i \in 1..Len(rs) : rs[i].err # "none"}
    IN rs[CHOOSE i \in bad : \A j \in bad : i <= j]

AllOk(rs) == \A i \in 1..Len(rs) : rs[i].err = "none"

visit_name(args) ==
    IF Len(args) # 1 THEN Raise("TypeError")
    ELSE Ok(args[1] :> ("$exists" :> TRUE))

\* _, field = value: unpacks any two-element node, whatever its tag.
visit_not(args) ==
    IF Len(args) # 1 THEN Raise("TypeError")
    ELSE IF Len(args[1]) # 2 THEN Raise("ValueError")
    ELSE Ok(args[1][2] :> ("$exists" :> FALSE))

visit_eq(args) ==
    IF Len(args) # 2 THEN Raise("TypeError")
    ELSE Ok(args[1][2] :> args[2][2])

\* visit_re, visit_gt, visit_gte, visit_lt, visit_lte: {field[1]: {mop: value[1]}}
visit_cmp(mop, args) ==
    IF Len(args) # 2 THEN Raise("TypeError")
    ELSE Ok(args[1][2] :> (mop :> args[2][2]))

visit_in(args) ==
    IF Len(args) < 1 THEN Raise("TypeError")
    ELSE Ok(args[1][2] :> ("$in" :> [i \in 1..(Len(args) - 1) |-> args[i + 1][2]]))

RECURSIVE visit(_)
\* visit_and / visit_or: the list of the lowered children under mop.
visit_list(mop, args) ==
    LET rs == [i \in 1..Len(args) |-> visit(args[i])]
    IN IF AllOk(rs) THEN Ok(mop :> [i \in 1..Len(args) |-> rs[i].val])
       ELSE FirstError(rs)

\* op, *args = syntax_tree; the method is looked up by name, and a missing
\* one is an AttributeError, which the except KeyError clause lets through.
visit(syntax_tree) ==
    IF Len(syntax_tree) = 0 THEN Raise("ValueError")
    ELSE
        LET op == Head(syntax_tree)
            args == Tail(syntax_tree)
            m == lower(op)
        IN IF m \notin MongoQueryMethods THEN Raise("AttributeError")
           ELSE CASE m = "name" -> visit_name(args)
                  [] m = "not" -> visit_not(args)
                  [] m = "and" -> visit_list("$and", args)
                  [] m = "or" -> visit_list("$or", args)
                  [] m = "eq" -> visit_eq(args)
                  [] m = "re" -> visit_cmp("$regex", args)
                  [] m = "gt" -> visit_cmp("$gt", args)
                  [] m = "gte" -> visit_cmp("$gte", args)
                  [] m = "lt" -> visit_cmp("$lt", args)
                  [] m = "lte" -> visit_cmp("$lte", args)
                  [] m = "in" -> visit_in(args)

\* The arguments a caller hands to parser(...): None, a native filter (a
\* dict) or an AST (a tuple, possibly empty).
PyNone == [kind |-> "none"]
PyDict(d) == [kind |-> "dict", v |-> d]
PyAst(t) == [kind |-> "ast", v |-> t]
EmptyDict == <<>>

\* MongoQuery.__call__
parser(ast) ==
    CASE ast.kind = "dict" -> Ok(ast.v)
      [] ast.kind = "ast" -> IF Len(ast.v) > 0 THEN visit(ast.v) ELSE Ok(EmptyDict)
      [] OTHER -> Ok(EmptyDict)

QueryInputs ==
    {PyNone, PyDict(EmptyDict), PyAst(<<>>)} \cup {PyAst(t) : t \in ASTs}

(***************************************************************************)
(* The lowering on its own: one call of parser(...) per step.              *)
(***************************************************************************)
InitLower == query = NoCall /\ lowered = NoCall

\* No database constructed.
\* An index the server does not hold.
NoIndex == [exists |-> FALSE, docs |-> <<>>]

InitNoDB ==
    /\ backend = "none"
    /\ collection_name = "atoms"
    /\ mdb = [c \in {"atoms"} |-> <<>>]
    /\ mret = NoCall
    /\ nwrites = 0
    /\ renaming = NoCall
    /\ osi = [docs |-> <<>>, mapping |-> {}, exists |-> FALSE, other |-> NoIndex]
    /\ oret = NoCall

Lower(q) ==
    /\ query' = q
    /\ lowered' = parser(q)
    /\ UNCHANGED <<histvars, backend, mongovars, osvars>>

NextLower == \E q \in QueryInputs : Lower(q)

InitHist == hdata = NoCall /\ hbins = NoCall /\ hout = NoCall

InitSpecLower == InitLower /\ InitHist /\ InitNoDB
SpecLower == InitSpecLower /\ [][NextLower]_vars

IsNode(q, op) == q.kind = "ast" /\ Len(q.v) > 0 /\ q.v[1] = op
IsNameNode(n) == Len(n) = 2 /\ n[1] = "NAME"

\* C2: lowering Not(Name(f)) yields the filter "field f is absent", and
\* lowering Not(n) for any other node n raises UnsupportedPredicateError; it
\* never returns a filter.
C2_NotOnlyOverExistence ==
    IsNode(query, "NOT") =>
        IF IsNameNode(query.v[2])
        THEN lowered = Ok(query.v[2][2] :> ("$exists" :> FALSE))
        ELSE lowered.err = "UnsupportedPredicateError"

\* C3: lowering is total over the well-formed ASTs: for every AST built from
\* Name, Not(Name), And, Or, Eq, Ne, Gt, Gte, Lt, Lte, Regex and In the call
\* returns a filter and raises nothing.
C3_LoweringTotal ==
    (query.kind = "ast" /\ query.v \in WellFormed) => lowered.err = "none"

(***************************************************************************)
(* The histogram engine                                                    *)
(***************************************************************************)
\* Bounds of the histogram inputs.
MaxLen == 3
\* numpy holds a list of Python ints as fixed-width signed integers (64 bits
\* wide in the program); the model keeps the wrap-around at a smaller width.
IntBits == 5
MinInt == -(2 ^ (IntBits - 1))
MaxInt == 2 ^ (IntBits - 1) - 1

\* Fixed-width signed arithmetic: the result of an operation wraps.
wrap(x) == ((x + 2 ^ (IntBits - 1)) % (2 ^ IntBits)) - 2 ^ (IntBits - 1)

\* isinstance(x, ptype): bool is a subclass of int.
isinstance(x, ptype) == x.t = ptype \/ (x.t = "bool" /\ ptype = "int")

SeqMin(a) == CHOOSE x \in {a[i] : i \in 1..Len(a)} : \A i \in 1..Len(a) : x <= a[i]
SeqMax(a) == CHOOSE x \in {a[i] : i \in 1..Len(a)} : \A i \in 1..Len(a) : x >= a[i]

\* np.array(data) of ints and bools: the numbers, True as 1 and False as 0.
np_array(data) ==
    [i \in 1..Len(data) |->
        IF data[i].t = "bool" THEN (IF data[i].v THEN 1 ELSE 0) ELSE data[i].v]

\* np.histogram(a, bins=n): n equal-width bins over [min, max] (over
\* [min - 0.5, max + 0.5] when min = max), the last bin closed on the right.
np_histogram(a, n) ==
    LET lo == SeqMin(a)
        hi == SeqMax(a)
        idx(x) ==
            IF lo = hi THEN n \div 2
            ELSE IF x = hi THEN n - 1
            ELSE ((x - lo) * n) \div (hi - lo)
    IN [b \in 1..n |-> Cardinality({i \in 1..Len(a) : idx(a[i]) = b - 1})]

\* kwargs.get("bins", 10), and the defaults of _hist_str.
DefaultBins == 10
DefaultTruncate == 20
get_bins(kw) == IF kw.has_bins THEN kw.bins ELSE PyInt(DefaultBins)
get_truncate(kw) == IF kw.has_truncate THEN kw.truncate ELSE PyInt(DefaultTruncate)

\* Python's truth value of an int or None.
truthy(x) == x.t = "int" /\ x.v # 0

_hist_float(data, bins) ==
    IF bins.t # "int" THEN Raise("TypeError")
    ELSE IF bins.v < 1 THEN Raise("ValueError")
    ELSE LET a == np_array(data)
         IN Ok([type |-> "hist_float", bins |-> bins.v, counts |-> np_histogram(a, bins.v),
                min |-> SeqMin(a), max |-> SeqMax(a)])

\* The same procedure on t.timestamp(), the results turned back to datetimes.
_hist_date(data, bins) ==
    IF bins.t # "int" THEN Raise("TypeError")
    ELSE IF bins.v < 1 THEN Raise("ValueError")
    ELSE LET a == np_array(data)
         IN Ok([type |-> "hist_date", bins |-> bins.v, counts |-> np_histogram(a, bins.v),
                min |-> SeqMin(a), max |-> SeqMax(a)])

\* The cap left out, as in _hist_float.
UncappedBins(bins, delta) == bins

\* The bin count capped at the width of the value range.
CappedBins(bins, delta) == IF bins > delta THEN delta ELSE bins

\* An array of bools only keeps the bool dtype, and numpy refuses to subtract
\* two bools; otherwise max - min + 1 is computed at the array's width.
_hist_int(data, bins) ==
    IF \A i \in 1..Len(data) : data[i].t = "bool" THEN Raise("TypeError")
    ELSE IF bins.t # "int" THEN Raise("TypeError")
    ELSE LET a == np_array(data)
             delta == wrap(wrap(SeqMax(a) - SeqMin(a)) + 1)
             n == CappedBins(bins.v, delta)
         IN IF n < 1 THEN Raise("ValueError")
            ELSE Ok([type |-> "hist_int", bins |-> n, counts |-> np_histogram(a, n),
                     min |-> SeqMin(a), max |-> SeqMax(a)])

\* The elements of a list.
Range(seq) == {seq[i] : i \in 1..Len(seq)}

\* The code points that order the characters of the model's strings.
Ord(c) == CASE c = "." -> 46 [] c = "a" -> 97 [] c = "b" -> 98 [] c = "c" -> 99

\* Python's < on two str values: lexicographic by code point.
StrLess(a, b) ==
    \/ Len(a) < Len(b) /\ \A i \in 1..Len(a) : a[i] = b[i]
    \/ \E k \in 1..Len(a) :
        /\ k <= Len(b)
        /\ \A i \in 1..(k - 1) : a[i] = b[i]
        /\ Ord(a[k]) < Ord(b[k])

\* item[:truncate] + "..." if len(item) > truncate else item
truncated(item, truncate) ==
    IF Len(item) > truncate THEN SubSeq(item, 1, truncate) \o <<".", ".", ".">> ELSE item

\* The keys of Counter(data) in insertion order: by first occurrence.
FirstSeen(labels) ==
    LET first == {i \in 1..Len(labels) : \A j \in 1..(i - 1) : labels[j] # labels[i]}
        rank(i) == Cardinality({j \in first : j <= i})
    IN [k \in 1..Cardinality(first) |-> labels[CHOOSE i \in first : rank(i) = k]]

CountOf(labels, l) == Cardinality({i \in 1..Len(labels) : labels[i] = l})

\* sorted(data.items(), key=itemgetter(1, 0), reverse=True): the greater
\* (count, label) pair first.
SortedItems(labels) ==
    LET keys == {labels[i] : i \in 1..Len(labels)}
        greater(a, b) ==
            \/ CountOf(labels, a) > CountOf(labels, b)
            \/ CountOf(labels, a) = CountOf(labels, b) /\ StrLess(b, a)
        rank(l) == 1 + Cardinality({m \in keys : greater(m, l)})
    IN [k \in 1..Cardinality(keys) |-> CHOOSE l \in keys : rank(l) = k]

\* seq[:n] for an int n (a negative n counts from the end) or None.
SliceTo(seq, n) ==
    IF n.t # "int" THEN seq
    ELSE IF n.v >= 0 THEN SubSeq(seq, 1, IF n.v < Len(seq) THEN n.v ELSE Len(seq))
    ELSE SubSeq(seq, 1, IF Len(seq) + n.v > 0 THEN Len(seq) + n.v ELSE 0)

_hist_str(data, bins, truncate) ==
    LET items == [i \in 1..Len(data) |-> data[i].v]
        n_unique == Cardinality({items[i] : i \in 1..Len(items)})
        labels ==
            IF truthy(truncate)
            THEN [i \in 1..Len(items) |-> truncated(items[i], truncate.v)]
            ELSE items
        order == IF truthy(bins) THEN SortedItems(labels) ELSE FirstSeen(labels)
        counts == [k \in 1..Len(order) |-> CountOf(labels, order[k])]
    IN Ok([type |-> "hist_str", total |-> Len(labels), unique |-> n_unique,
           labels |-> SliceTo(order, bins), counts |-> SliceTo(counts, bins)])

histogram(data, kw) ==
    IF Len(data) = 0 THEN Ok(None)
    ELSE IF ~(\A i \in 1..Len(data) : isinstance(data[i], data[1].t)) THEN Ok(None)
    ELSE IF isinstance(data[1], "float") THEN _hist_float(data, get_bins(kw))
    ELSE IF isinstance(data[1], "int") THEN _hist_int(data, get_bins(kw))
    ELSE IF isinstance(data[1], "str") THEN _hist_str(data, get_bins(kw), get_truncate(kw))
    ELSE IF isinstance(data[1], "date") THEN _hist_date(data, get_bins(kw))
    ELSE Ok(None)

HistValues ==
    {PyBool(TRUE), PyInt(MinInt), PyInt(0), PyInt(1), PyInt(3), PyInt(MaxInt),
     PyFloat(15), PyStr(<<"a">>), PyStr(<<"a", "b", "c">>), PyDate(7), PyDictValue}
HistData == UNION {[1..n -> HistValues] : n \in 0..MaxLen}
\* The keyword arguments of a call: bins and truncate, each given or left out.
HistBins == {PyInt(n) : n \in {-1, 0, 1, 2, 12}} \cup {None}
HistKwargs ==
    {[has_bins |-> FALSE, bins |-> None, has_truncate |-> FALSE, truncate |-> None]}
        \cup {[has_bins |-> TRUE, bins |-> b, has_truncate |-> FALSE, truncate |-> None] :
                  b \in HistBins}
        \cup {[has_bins |-> TRUE, bins |-> b, has_truncate |-> TRUE, truncate |-> PyInt(2)] :
                  b \in {PyInt(1), PyInt(2)}}

InitHistCall == hdata \in HistData /\ hbins \in HistKwargs /\ hout = NoCall

Histogram ==
    /\ hout = NoCall
    /\ hout' = histogram(hdata, hbins)
    /\ UNCHANGED <<lowervars, hdata, hbins, backend, mongovars, osvars>>

NextHist == Histogram

InitSpecHist == InitLower /\ InitHistCall /\ InitNoDB
SpecHist == InitSpecHist /\ [][NextHist]_vars

\* The element types of the data model.
ElementTypes == {"bool", "int", "float", "str", "date"}
MixedTypes(data) ==
    Cardinality({data[i].t : i \in 1..Len(data)} \cap ElementTypes) > 1

\* C9: histogram(name, values) returns None and raises nothing whenever the
\* values hold elements of more than one of the types bool, int, float, str
\* and timestamp, in whatever order.
C9_MixedTypesGiveNone ==
    (hout # NoCall /\ MixedTypes(hdata)) => (hout.err = "none" /\ hout.val = None)

AllInts(data) == Len(data) > 0 /\ \A i \in 1..Len(data) : data[i].t = "int"
ValueRange(data) == SeqMax(np_array(data)) - SeqMin(np_array(data)) + 1

\* C10: for every non-empty list of integers and every requested bins, the
\* bin count the integer histogram reports (and the number of counts it
\* returns) is at most max - min + 1 and at most the requested bins.
C10_IntBinsCapped ==
    (hout # NoCall /\ AllInts(hdata) /\ hout.err = "none") =>
        /\ hout.val.type = "hist_int"
        /\ hout.val.bins <= ValueRange(hdata)
        /\ hout.val.bins <= get_bins(hbins).v
        /\ Len(hout.val.counts) = hout.val.bins

\* An integer histogram whose requested bins exceeded the value range.
C10_Witness ==
    /\ hout # NoCall /\ AllInts(hdata) /\ hout.err = "none"
    /\ Len(hdata) > 1
    /\ get_bins(hbins).v > ValueRange(hdata)
    /\ hout.val.bins = ValueRange(hdata)

AllStrs(data) == Len(data) > 0 /\ \A i \in 1..Len(data) : data[i].t = "str"
\* The labels the string histogram counts: the values as truncated.
LabelsOf(data, kw) ==
    [i \in 1..Len(data) |->
        IF truthy(get_truncate(kw)) THEN truncated(data[i].v, get_truncate(kw).v)
        ELSE data[i].v]
\* The distinct labels by count descending and, on equal counts, by label
\* ascending.
RankedAscending(labels) ==
    LET keys == {labels[i] : i \in 1..Len(labels)}
        ahead(a, b) ==
            \/ CountOf(labels, a) > CountOf(labels, b)
            \/ CountOf(labels, a) = CountOf(labels, b) /\ StrLess(a, b)
        rank(l) == 1 + Cardinality({m \in keys : ahead(m, l)})
    IN [k \in 1..Cardinality(keys) |-> CHOOSE l \in keys : rank(l) = k]
FirstEntries(seq, n) == SubSeq(seq, 1, IF n < Len(seq) THEN n ELSE Len(seq))

\* C11: the string histogram orders its labels by count descending and,
\* among labels of equal count, by label ascending; the labels and counts it
\* reports are the first bins entries of that order.
C11_StrRanking ==
    (/\ hout # NoCall /\ AllStrs(hdata) /\ hout.err = "none"
     /\ truthy(get_bins(hbins)) /\ get_bins(hbins).v > 0) =>
        LET labels == LabelsOf(hdata, hbins)
            ranked == RankedAscending(labels)
        IN /\ hout.val.labels = FirstEntries(ranked, get_bins(hbins).v)
           /\ hout.val.counts =
                FirstEntries([k \in 1..Len(ranked) |-> CountOf(labels, ranked[k])],
                             get_bins(hbins).v)

\* C12: called with a falsy bins (0 or None), the string histogram reports
\* every distinct label with its count: no label is dropped.
C12_FalsyBinsKeepAllLabels ==
    (/\ hout # NoCall /\ AllStrs(hdata) /\ hout.err = "none"
     /\ ~truthy(get_bins(hbins))) =>
        LET labels == LabelsOf(hdata, hbins)
        IN /\ Range(hout.val.labels) = Range(labels)
           /\ Len(hout.val.labels) = Cardinality(Range(labels))
           /\ Len(hout.val.counts) = Len(hout.val.labels)
           /\ \A k \in 1..Len(hout.val.labels) :
                hout.val.counts[k] = CountOf(labels, hout.val.labels[k])

(***************************************************************************)
(* Stored records.  A document holds its fields and the derived side-table *)
(* with the three key lists.  Both servers are taken to answer a request   *)
(* from the documents written by the requests before it.                   *)
(***************************************************************************)
MaxDocs == 2
MaxKeys == 3

Doc(fields, info, arrays, der) ==
    [fields |-> fields,
     derived |-> [info_keys |-> info, arrays_keys |-> arrays, derived_keys |-> der]]

\* The documents AtomsModel.from_atoms builds from the Atoms objects pushed:
\* e is an info scalar, p an array, u a derived value.
AtomsDocs ==
    {Doc(("e" :> PyInt(1)) @@ ("p" :> PyList(<<PyList(<<PyInt(1), PyInt(2)>>)>>))
            @@ ("u" :> PyStr(<<"a">>)),
         <<"e">>, <<"p">>, <<"u">>),
     Doc(("e" :> PyFloat(15)) @@ ("p" :> PyList(<<PyList(<<PyInt(1), PyInt(2)>>)>>)),
         <<"e">>, <<"p">>, <<>>),
     Doc(("p" :> PyList(<<PyInt(1), PyInt(2)>>)), <<>>, <<"p">>, <<>>)}

Categories == {"info", "arrays", "derived"}
KeyList(doc, cat) ==
    CASE cat = "info" -> doc.derived.info_keys
      [] cat = "arrays" -> doc.derived.arrays_keys
      [] cat = "derived" -> doc.derived.derived_keys

Occurrences(seq, x) == Cardinality({i \in 1..Len(seq) : seq[i] = x})
Orderings(S) ==
    {o \in [1..Cardinality(S) -> S] : \A i, j \in 1..Cardinality(S) : i # j => o[i] # o[j]}

(***************************************************************************)
(* The MongoDB server: matching a filter, the aggregations, the updates.   *)
(***************************************************************************)
IsNumber(x) == x.t \in {"int", "float"}
\* A number in tenths, so that an int and a float compare by value.
Num(x) == IF x.t = "int" THEN 10 * x.v ELSE x.v

\* One comparison of a stored scalar with a literal, within its type bracket.
Compare(mop, x, lit) ==
    IF IsNumber(x) /\ IsNumber(lit) THEN
        CASE mop = "$eq" -> Num(x) = Num(lit)
          [] mop = "$gt" -> Num(x) > Num(lit)
          [] mop = "$gte" -> Num(x) >= Num(lit)
          [] mop = "$lt" -> Num(x) < Num(lit)
          [] mop = "$lte" -> Num(x) <= Num(lit)
    ELSE IF x.t = "str" /\ lit.t = "str" THEN
        CASE mop = "$eq" -> x.v = lit.v
          [] mop = "$gt" -> StrLess(lit.v, x.v)
          [] mop = "$gte" -> ~StrLess(x.v, lit.v)
          [] mop = "$lt" -> StrLess(x.v, lit.v)
          [] mop = "$lte" -> ~StrLess(lit.v, x.v)
    ELSE FALSE

\* A stored value satisfies a comparison itself or, an array, by an element.
Satisfies(mop, value, lit) ==
    IF value.t = "list"
    THEN \E i \in 1..Len(value.v) : value.v[i].t # "list" /\ Compare(mop, value.v[i], lit)
    ELSE Compare(mop, value, lit)

\* {field: condition}: a literal (equality) or one operator with its argument.
FieldMatch(cond, doc, f) ==
    IF "t" \in DOMAIN cond THEN f \in DOMAIN doc.fields /\ Satisfies("$eq", doc.fields[f], cond)
    ELSE \A mop \in DOMAIN cond :
        CASE mop = "$exists" -> (f \in DOMAIN doc.fields) = cond[mop]
          [] mop = "$in" ->
                /\ f \in DOMAIN doc.fields
                /\ \E i \in 1..Len(cond[mop]) : Satisfies("$eq", doc.fields[f], cond[mop][i])
          [] OTHER -> f \in DOMAIN doc.fields /\ Satisfies(mop, doc.fields[f], cond[mop])

RECURSIVE MongoMatch(_, _)
MongoMatch(filter, doc) ==
    \A k \in DOMAIN filter :
        CASE k = "$and" -> \A i \in 1..Len(filter[k]) : MongoMatch(filter[k][i], doc)
          [] k = "$or" -> \E i \in 1..Len(filter[k]) : MongoMatch(filter[k][i], doc)
          [] OTHER -> FieldMatch(filter[k], doc, k)

\* find(filter) and count_documents(filter) on a collection.
Find(coll, filter) == SelectSeq(coll, LAMBDA d : MongoMatch(filter, d))

\* The $match stage lost: every document of the collection is unwound.
UnwindGroupUnmatched(coll, filter, cat) ==
    LET keys == UNION {Range(KeyList(coll[i], cat)) : i \in 1..Len(coll)}
    IN [k \in keys |-> Cardinality({i \in 1..Len(coll) : k \in Range(KeyList(coll[i], cat))})]

\* $match, $unwind of a key list, $group by the key with $sum 1: the groups,
\* key -> the number of unwound documents that carry it.
UnwindGroup(coll, filter, cat) ==
    LET found == Find(coll, filter)
        keys == UNION {Range(KeyList(found[i], cat)) : i \in 1..Len(found)}
        total[n \in 0..Len(found)] ==
            [k \in keys |->
                IF n = 0 THEN 0 ELSE total[n - 1][k] + Occurrences(KeyList(found[n], cat), k)]
    IN total[Len(found)]

\* An update document: $push onto derived.info_keys, $pull from
\* derived.info_keys and derived.arrays_keys, $set, $unset, $rename.
NoUpdate ==
    [push |-> <<>>, pull_info |-> {}, pull_arrays |-> {}, set |-> <<>>, unset |-> {},
     rename |-> {}]

\* $push of keys onto derived.info_keys.
PushInfoKeys(doc, keys) == [doc EXCEPT !.derived.info_keys = @ \o keys]
\* $pull of names from derived.info_keys and derived.arrays_keys.
PullKeys(doc, info, arrays) ==
    [doc EXCEPT !.derived.info_keys = SelectSeq(@, LAMBDA k : k \notin info),
                !.derived.arrays_keys = SelectSeq(@, LAMBDA k : k \notin arrays)]
\* $set of the fields of data.
SetFields(doc, data) ==
    [doc EXCEPT !.fields =
        [k \in DOMAIN @ \cup DOMAIN data |-> IF k \in DOMAIN data THEN data[k] ELSE @[k]]]
\* $unset of fields.
UnsetField(doc, names) ==
    [doc EXCEPT !.fields = [k \in DOMAIN @ \ names |-> @[k]]]
\* $rename: a document without the field is left as it is.
RenameField(doc, name, new_name) ==
    IF name \notin DOMAIN doc.fields THEN doc
    ELSE [doc EXCEPT !.fields =
            [k \in (DOMAIN @ \ {name}) \cup {new_name} |->
                IF k = new_name THEN @[name] ELSE @[k]]]
RenameFields(doc, pairs) ==
    IF pairs = {} THEN doc
    ELSE LET r == CHOOSE r \in pairs : TRUE IN RenameField(doc, r[1], r[2])

ApplyUpdate(doc, update) ==
    RenameFields(
        UnsetField(
            SetFields(PullKeys(PushInfoKeys(doc, update.push),
                               update.pull_info, update.pull_arrays),
                      update.set),
            update.unset),
        update.rename)

\* update_many: the update applied to every document the filter matches.
UpdateMany(coll, filter, update) ==
    [i \in 1..Len(coll) |->
        IF MongoMatch(filter, coll[i]) THEN ApplyUpdate(coll[i], update) ELSE coll[i]]

\* update_many calls made one after the other with the same filter.
UpdateManyInTurn(coll, filter, updates) ==
    LET step[n \in 0..Len(updates)] ==
            IF n = 0 THEN coll ELSE UpdateMany(step[n - 1], filter, updates[n])
    IN step[Len(updates)]

(***************************************************************************)
(* Type inference on one sampled value                                     *)
(***************************************************************************)
\* map_types: the Python types with a name; any other type is a KeyError.
map_types ==
    [bool |-> "bool", float |-> "float", int |-> "int", str |-> "str", date |-> "date",
     dict |-> "dict"]
TypeName(x) == IF x.t \in DOMAIN map_types THEN Ok(map_types[x.t]) ELSE Raise("KeyError")

\* The two dimensions handed to format() the other way round.
DescriptorSwapped(shape, elem, n, m) ==
    IF elem.err # "none" THEN elem
    ELSE Ok([shape |-> shape, elem |-> elem.val, n |-> m, m |-> n])

\* The descriptor, kept in its parts, each as the text format() writes:
\* "array(int, N x 2)" is [shape |-> "array", elem |-> "int", n |-> "N", m |-> "2"].
Descriptor(shape, elem, n, m) ==
    IF elem.err # "none" THEN elem
    ELSE Ok([shape |-> shape, elem |-> elem.val, n |-> n, m |-> m])

\* data[0]: the first element of a list, or what Python raises instead.
FirstOf(data) ==
    CASE data.t = "list" -> IF Len(data.v) = 0 THEN Raise("IndexError") ELSE Ok(data.v[1])
      [] data.t = "str" ->
            IF Len(data.v) = 0 THEN Raise("IndexError") ELSE Ok(PyStr(<<data.v[1]>>))
      [] data.t = "dict" -> Raise("KeyError")
      [] OTHER -> Raise("TypeError")

\* The body of get_type_of_property once the sample's value is at hand.
DescribeValue(data, category) ==
    IF category = "arrays" THEN
        LET first == FirstOf(data)
        IN IF first.err # "none" THEN first
           ELSE IF first.val.t = "list" THEN
                LET inner == FirstOf(first.val)
                IN IF inner.err # "none" THEN inner
                   ELSE Descriptor("array", TypeName(inner.val), "N", ToString(Len(first.val.v)))
           ELSE Descriptor("vector", TypeName(first.val), "N", "")
    ELSE IF data.t = "list" THEN
        LET first == FirstOf(data)
        IN IF first.err # "none" THEN first
           ELSE IF first.val.t = "list" THEN
                LET inner == FirstOf(first.val)
                IN IF inner.err # "none" THEN inner
                   ELSE IF inner.val.t = "list" THEN Ok([shape |-> "list(list(...)", elem |-> "", n |-> "", m |-> ""])
                   ELSE Descriptor("array", TypeName(inner.val), "", "")
           ELSE Descriptor("vector", TypeName(first.val), "", "")
    ELSE Descriptor("scalar", TypeName(data), "", "")

\* What find_one / a search of size 1 hands back when nothing matches.
NoDocument == [missing |-> TRUE]

\* get_type_of_property on the sample the server returned: subscripting the
\* missing sample raises.
get_type_of_property(atoms, prop, category, missing) ==
    IF atoms = NoDocument THEN Raise(missing)
    ELSE DescribeValue(atoms.fields[prop], category)

\* The documents the server may hand back as the one sample of a field.
Samples(coll, prop) ==
    LET having == {i \in 1..Len(coll) : prop \in DOMAIN coll[i].fields}
    IN IF having = {} THEN {NoDocument} ELSE {coll[i] : i \in having}

(***************************************************************************)
(* MongoDatabase                                                           *)
(***************************************************************************)
\* self.collection (db[collection_name]) and self.db.atoms.
CollectionNames == {"atoms", "confs"}
Collection == mdb[collection_name]
DbAtoms == mdb["atoms"]

\* What push is handed: one Atoms object or a list of them.
OneAtoms(d) == [kind |-> "atoms", v |-> <<d>>]
AtomsList(ds) == [kind |-> "list", v |-> ds]
PushInputs ==
    {OneAtoms(d) : d \in AtomsDocs}
        \cup {AtomsList(<<d, d>>) : d \in AtomsDocs} \cup {AtomsList(<<>>)}

\* The queries handed to the reading and the writing calls.
NameE == Name("e")
MongoQueries ==
    {PyNone, PyDict(EmptyDict), PyAst(<<>>), PyAst(NameE), PyAst(Not(NameE)),
     PyAst(<<"GT", NameE, <<"NUMBER", PyInt(1)>>>>), PyAst(<<"NE", NameE, <<"NUMBER", PyInt(1)>>>>)}
EmptyQueries == {PyNone, PyDict(EmptyDict), PyAst(<<>>)}
FilterQueries == {PyNone, PyAst(NameE), PyAst(<<"GT", NameE, <<"NUMBER", PyInt(1)>>>>)}
WriteQueries == {PyNone, PyAst(NameE)}

Called(op, q, out) == [op |-> op, q |-> q, out |-> out]

\* The iteration order of a dict's keys, for the one-key dicts of the model.
KeysOf(data) == CHOOSE o \in Orderings(DOMAIN data) : TRUE

\* The position of a category in the order the code goes through them.
Position(order, c) == CHOOSE i \in 1..Len(order) : order[i] = c

\* count_properties, given the groups of each category
\* (category -> key -> count), the categories in the order the code goes
\* through them, whether one (key, category) pair is always handled before
\* another (the loop goes category by category, or property by property and
\* then by category), and the collection the samples come from: every mapping the call
\* may return and every exception it may raise.  The entry of a key is the
\* one written last; an exception of get_type_of_property ends the call.
CountPropertiesOutcomes(groups, order, major, coll, missing) ==
    LET Before(p2, p) ==
            /\ Position(order, p2[2]) < Position(order, p[2])
            /\ major = "property" => p2[1] = p[1]
        listed == {p \in (UNION {DOMAIN groups[c] : c \in Range(order)}) \X Range(order) :
                      p[1] \in DOMAIN groups[p[2]]}
        dtypes(p) == {get_type_of_property(a, p[1], p[2], missing) : a \in Samples(coll, p[1])}
        good(p) == {d \in dtypes(p) : d.err = "none"}
        keys == {p[1] : p \in listed}
        last(k) ==
            CHOOSE c \in Range(order) :
                /\ <<k, c>> \in listed
                /\ \A c2 \in Range(order) :
                    <<k, c2>> \in listed => Position(order, c2) <= Position(order, c)
        raised ==
            {d \in UNION {dtypes(p) \ good(p) : p \in listed} :
                \E p \in listed :
                    /\ d \in dtypes(p)
                    /\ \A p2 \in listed : Before(p2, p) => good(p2) # {}}
        returned ==
            IF \E p \in listed : good(p) = {} THEN {}
            ELSE {Ok([k \in keys |->
                        [count |-> groups[last(k)][k], category |-> last(k),
                         dtype |-> ch[k].val]]) :
                    ch \in {c \in [keys -> UNION {good(<<k, last(k)>>) : k \in keys}] :
                               \A k \in keys : c[k] \in good(<<k, last(k)>>)}}
    IN raised \cup returned

MongoOrder == <<"info", "arrays", "derived">>

\* MongoDatabase.count
MongoCountOut(q) ==
    LET f == parser(q)
    IN IF f.err # "none" THEN f ELSE Ok(Len(Find(DbAtoms, f.val)))

\* MongoDatabase.get_atoms / get_items: the documents find() yields.
MongoGetAtomsOut(q) ==
    LET f == parser(q)
    IN IF f.err # "none" THEN f ELSE Ok(Find(DbAtoms, f.val))

\* MongoDatabase.properties: each list in the order the groups come back.
MongoPropertiesOutcomes(q) ==
    LET f == parser(q)
        keys(c) == DOMAIN UnwindGroup(DbAtoms, f.val, c)
    IN IF f.err # "none" THEN {f}
       ELSE {Ok([info |-> i, arrays |-> a, derived |-> d]) :
                i \in Orderings(keys("info")), a \in Orderings(keys("arrays")),
                d \in Orderings(keys("derived"))}

\* MongoDatabase.count_properties
MongoCountPropertiesOutcomes(q) ==
    LET f == parser(q)
    IN IF f.err # "none" THEN {f}
       ELSE CountPropertiesOutcomes([c \in Categories |-> UnwindGroup(DbAtoms, f.val, c)],
                MongoOrder, "category", DbAtoms, "TypeError")

MongoActive == backend \in {"mongodb", "both"}

\* The writing calls a run makes.
MaxWrites == 3

MongoPush(atoms) ==
    /\ MongoActive
    /\ nwrites < MaxWrites
    /\ Len(Collection) + Len(atoms.v) <= MaxDocs
    /\ mdb' = [mdb EXCEPT ![collection_name] = @ \o atoms.v]
    /\ mret' = Called("push", PyNone, Ok(None))
    /\ nwrites' = nwrites + 1
    /\ UNCHANGED <<lowervars, histvars, backend, collection_name, renaming, osvars>>

\* A write through update_many, or the exception of the parser.
MongoWrite(op, q, updates) ==
    LET f == parser(q)
    IN /\ MongoActive
       /\ nwrites < MaxWrites
       /\ nwrites' = nwrites + 1
       /\ IF f.err # "none"
          THEN mdb' = mdb /\ mret' = Called(op, q, f)
          ELSE /\ mdb' = [mdb EXCEPT ![collection_name] = UpdateManyInTurn(@, f.val, updates)]
               /\ mret' = Called(op, q, Ok(None))
       /\ UNCHANGED <<lowervars, histvars, backend, collection_name, renaming, osvars>>

MongoDeleteMany(coll, filter) == SelectSeq(coll, LAMBDA d : ~MongoMatch(filter, d))
MongoDelete(q) ==
    LET f == parser(q)
    IN /\ MongoActive
       /\ nwrites < MaxWrites
       /\ nwrites' = nwrites + 1
       /\ IF f.err # "none"
          THEN mdb' = mdb /\ mret' = Called("delete", q, f)
          ELSE /\ mdb' = [mdb EXCEPT ![collection_name] = MongoDeleteMany(@, f.val)]
               /\ mret' = Called("delete", q, Ok(None))
       /\ UNCHANGED <<lowervars, histvars, backend, collection_name, renaming, osvars>>

MongoAddProperty(data, q) ==
    /\ \A i \in 1..Len(Collection) : Len(Collection[i].derived.info_keys) < MaxKeys
    /\ MongoWrite("add_property", q,
            <<[NoUpdate EXCEPT !.push = KeysOf(data), !.set = data]>>)

\* The two updates of rename_property: new_name pushed, then name pulled and
\* the field renamed.
RenamePush(new_name) == [NoUpdate EXCEPT !.push = <<new_name>>]
RenamePull(name, new_name) ==
    [NoUpdate EXCEPT !.pull_info = {name}, !.rename = {<<name, new_name>>}]

\* rename_property with no other client at work: the two update_many calls
\* one after the other.
MongoRenameProperty(name, new_name, q) ==
    /\ renaming = NoCall
    /\ \A i \in 1..Len(Collection) : Len(Collection[i].derived.info_keys) < MaxKeys
    /\ MongoWrite("rename_property", q, <<RenamePush(new_name), RenamePull(name, new_name)>>)

\* rename_property with other clients at work, update_many by update_many:
\* the first call, after which the second is still to come ...
MongoRenameFirstUpdate(name, new_name, q) ==
    LET f == parser(q)
    IN /\ MongoActive
       /\ renaming = NoCall
       /\ nwrites < MaxWrites
       /\ \A i \in 1..Len(Collection) : Len(Collection[i].derived.info_keys) < MaxKeys
       /\ nwrites' = nwrites + 1
       /\ IF f.err # "none"
          THEN /\ mret' = Called("rename_property", q, f)
               /\ UNCHANGED <<mdb, renaming>>
          ELSE /\ mdb' = [mdb EXCEPT ![collection_name] =
                                        UpdateMany(@, f.val, RenamePush(new_name))]
               /\ renaming' = [name |-> name, new_name |-> new_name, q |-> q]
               /\ mret' = mret
       /\ UNCHANGED <<lowervars, histvars, backend, collection_name, osvars>>

\* ... and the second call, after which rename_property returns.
MongoRenameSecondUpdate ==
    /\ MongoActive
    /\ renaming # NoCall
    /\ mdb' = [mdb EXCEPT ![collection_name] =
                        UpdateMany(@, parser(renaming.q).val,
                                   RenamePull(renaming.name, renaming.new_name))]
    /\ renaming' = NoCall
    /\ mret' = Called("rename_property", renaming.q, Ok(None))
    /\ UNCHANGED <<lowervars, histvars, backend, collection_name, nwrites, osvars>>

MongoDeleteProperty(name, q) ==
    MongoWrite("delete_property", q,
        <<[NoUpdate EXCEPT !.pull_info = {name}, !.pull_arrays = {name}, !.unset = {name}]>>)

MongoRead(op, q, outs) ==
    /\ MongoActive
    /\ \E out \in outs : mret' = Called(op, q, out)
    /\ UNCHANGED <<lowervars, histvars, backend, collection_name, mdb, nwrites, renaming, osvars>>

MongoCount(q) == MongoRead("count", q, {MongoCountOut(q)})
MongoGetAtoms(q) == MongoRead("get_atoms", q, {MongoGetAtomsOut(q)})
MongoProperties(q) == MongoRead("properties", q, MongoPropertiesOutcomes(q))
MongoCountProperties(q) == MongoRead("count_properties", q, MongoCountPropertiesOutcomes(q))

\* get_type_of_property(prop, category) called on the database: its two
\* arguments recorded in the place of a query.
PropertyArgs(prop, category) == [kind |-> "property", v |-> <<prop, category>>]
MongoGetTypeOfPropertyOutcomes(prop, category) ==
    {get_type_of_property(a, prop, category, "TypeError") : a \in Samples(DbAtoms, prop)}
MongoGetTypeOfProperty(prop, category) ==
    MongoRead("get_type_of_property", PropertyArgs(prop, category),
              MongoGetTypeOfPropertyOutcomes(prop, category))
TypedProperties == {"e", "p", "x"}

\* MongoDatabase.property: the values of the field in the documents that
\* match the query and carry it.
MongoPropertyOut(name, q) ==
    LET f == parser(q)
        found == Find(DbAtoms, f.val)
        having == SelectSeq(found, LAMBDA d : name \in DOMAIN d.fields)
    IN IF f.err # "none" THEN f ELSE Ok([i \in 1..Len(having) |-> having[i].fields[name]])
MongoProperty(name, q) ==
    MongoRead("property", PropertyArgs(name, ""), {MongoPropertyOut(name, q)})

\* MongoDatabase.info: the collection's name and its count_documents({}).
MongoInfoOut ==
    Ok([collection |-> collection_name, number_of_confs |-> Len(Collection)])
MongoInfo == MongoRead("info", PyNone, {MongoInfoOut})

AddedData == {("x" :> PyInt(1)), ("p" :> PyInt(1))}
Renames == {<<"e", "x">>, <<"e", "p">>}
DeletedNames == {"e", "p", "u"}

NextMongo ==
    \/ \E a \in PushInputs : MongoPush(a)
    \/ \E q \in MongoQueries : MongoDelete(q)
    \/ \E d \in AddedData, q \in WriteQueries : MongoAddProperty(d, q)
    \/ \E r \in Renames, q \in WriteQueries : MongoRenameProperty(r[1], r[2], q)
    \/ \E n \in DeletedNames, q \in WriteQueries : MongoDeleteProperty(n, q)
    \/ \E q \in MongoQueries : MongoCount(q)
    \/ \E q \in EmptyQueries \cup {PyAst(NameE)} : MongoGetAtoms(q)
    \/ \E q \in FilterQueries : MongoProperties(q)
    \/ \E q \in FilterQueries : MongoCountProperties(q)
    \/ \E prop \in TypedProperties, c \in Categories : MongoGetTypeOfProperty(prop, c)
    \/ \E name \in TypedProperties : MongoProperty(name, PyNone)
    \/ MongoInfo

(***************************************************************************)
(* The OpenSearch server and OpenSearchDatabase.  The wrapper lowers       *)
(* nothing (query = parser(query) is commented out): what the caller hands *)
(* in goes to the server as the query, and the server rejects whatever is  *)
(* not a query of its own language.                                        *)
(***************************************************************************)
MatchAll == "match_all" :> <<>>
ExistsQuery(f) == "exists" :> [field |-> f]

\* Python's "not query".
falsy(q) == q.kind = "none" \/ (q.kind \in {"dict", "ast"} /\ DOMAIN q.v = {})

\* Whether the server can parse the query of a request body.
OSParses(q) == q.kind = "dict" /\ (DOMAIN q.v = {"match_all"} \/ DOMAIN q.v = {"exists"})

OSMatch(dsl, doc) ==
    IF "match_all" \in DOMAIN dsl THEN TRUE
    ELSE dsl["exists"].field \in DOMAIN doc.fields

\* The documents a search, count or delete_by_query with this query selects.
OSSelect(q) ==
    IF ~osi.exists THEN Raise("NotFoundError")
    ELSE IF OSParses(q) THEN Ok(SelectSeq(osi.docs, LAMBDA d : OSMatch(q.v, d)))
    ELSE Raise("RequestError")

\* if not query: query = {"match_all": {}}
OSDefault(q) == IF falsy(q) THEN PyDict(MatchAll) ELSE q

\* OpenSearchDatabase.count
OSCountOut(q) ==
    LET hits == OSSelect(OSDefault(q))
    IN IF hits.err # "none" THEN hits ELSE Ok(Len(hits.val))

\* OpenSearchDatabase.get_atoms: here the argument is the whole request
\* body, so a caller's query has to come wrapped as {"query": ...}.
OSGetAtomsOut(q) ==
    LET body == IF falsy(q) THEN PyDict([query |-> MatchAll]) ELSE q
    IN IF body.kind = "dict" /\ DOMAIN body.v = {"query"} THEN OSSelect(PyDict(body.v.query))
       ELSE Raise("RequestError")

\* The filter aggregation of one key list: the selected documents whose list
\* holds the term.
DocCount(hits, cat, prop) ==
    Cardinality({i \in 1..Len(hits) : prop \in Range(KeyList(hits[i], cat))})

OSOrder == <<"info", "derived", "arrays">>

\* OpenSearchDatabase.properties: one search per property of the mapping, in
\* the order the mapping lists them; a category with no property has no key.
\* An index nothing was written to has no "properties" in its mapping.
OSPropertiesOutcomes(q) ==
    LET hits == OSSelect(OSDefault(q))
        under(c) == {prop \in osi.mapping : DocCount(hits.val, c, prop) > 0}
        cats == {c \in Categories : under(c) # {}}
    IN IF ~osi.exists THEN {Raise("NotFoundError")}
       ELSE IF osi.mapping = {} THEN {Raise("KeyError")}
       ELSE IF hits.err # "none" THEN {hits}
       ELSE {Ok([c \in cats |-> SelectSeq(o, LAMBDA prop : prop \in under(c))]) :
                o \in Orderings(osi.mapping)}

\* OpenSearchDatabase.count_properties
OSCountPropertiesOutcomes(q) ==
    LET hits == OSSelect(OSDefault(q))
        groups ==
            [c \in Categories |->
                [prop \in {m \in osi.mapping : DocCount(hits.val, c, m) > 0} |->
                    DocCount(hits.val, c, prop)]]
    IN IF ~osi.exists THEN {Raise("NotFoundError")}
       ELSE IF osi.mapping = {} THEN {Ok(<<>>)}
       ELSE IF hits.err # "none" THEN {hits}
       ELSE CountPropertiesOutcomes(groups, OSOrder, "property", osi.docs, "IndexError")

OSActive == backend \in {"opensearch", "both"}

\* A push that writes each document under an id made from its content: a
\* document stored before is overwritten, not added.
OSPushByContent(atoms) ==
    /\ OSActive
    /\ Len(osi.docs) + Len(atoms.v) <= MaxDocs
    /\ osi' = [osi EXCEPT
                !.docs = @ \o (IF Len(atoms.v) > 0 /\ atoms.v[1] \notin Range(@)
                               THEN <<atoms.v[1]>> ELSE <<>>),
                !.mapping = @ \cup UNION {DOMAIN atoms.v[i].fields \cup {"derived"} :
                                            i \in 1..Len(atoms.v)},
                !.exists = @ \/ Len(atoms.v) > 0]
    /\ oret' = Called("push", PyNone, Ok(None))
    /\ UNCHANGED <<lowervars, histvars, backend, mongovars>>

\* AtomsModel.save (client.index) for one Atoms object, save_bulk for a list:
\* the documents are added, and the mapping learns their properties.  The
\* server creates a missing index on the first document written to it.
OSPush(atoms) ==
    /\ OSActive
    /\ Len(osi.docs) + Len(atoms.v) <= MaxDocs
    /\ osi' = [osi EXCEPT
                !.docs = @ \o atoms.v,
                !.mapping = @ \cup UNION {DOMAIN atoms.v[i].fields \cup {"derived"} :
                                            i \in 1..Len(atoms.v)},
                !.exists = @ \/ Len(atoms.v) > 0]
    /\ oret' = Called("push", PyNone, Ok(None))
    /\ UNCHANGED <<lowervars, histvars, backend, mongovars>>

\* OpenSearchDatabase.delete: delete_by_query
OSDelete(q) ==
    LET hits == OSSelect(OSDefault(q))
    IN /\ OSActive
       /\ IF hits.err # "none"
          THEN osi' = osi /\ oret' = Called("delete", q, hits)
          ELSE /\ osi' = [osi EXCEPT !.docs = SelectSeq(@, LAMBDA d : ~OSMatch(OSDefault(q).v, d))]
               /\ oret' = Called("delete", q, Ok(None))
       /\ UNCHANGED <<lowervars, histvars, backend, mongovars>>

\* destroy without ignore=404: a missing index is an error.
OSDestroyStrict ==
    /\ OSActive
    /\ osi' = [osi EXCEPT !.exists = FALSE, !.docs = <<>>, !.mapping = {}]
    /\ oret' = Called("destroy", PyNone, IF osi.exists THEN Ok(None) ELSE Raise("NotFoundError"))
    /\ UNCHANGED <<lowervars, histvars, backend, mongovars>>

\* OpenSearchDatabase.destroy: indices.delete with ignore=404.
OSDestroy ==
    /\ OSActive
    /\ osi' = [osi EXCEPT !.exists = FALSE, !.docs = <<>>, !.mapping = {}]
    /\ oret' = Called("destroy", PyNone, Ok(None))
    /\ UNCHANGED <<lowervars, histvars, backend, mongovars>>

\* OpenSearchDatabase.create: indices.create with ignore=400; an index that
\* exists is left as it is.
OSCreate ==
    /\ OSActive
    /\ osi' = [osi EXCEPT !.exists = TRUE]
    /\ oret' = Called("create", PyNone, Ok(None))
    /\ UNCHANGED <<lowervars, histvars, backend, mongovars>>

OSRead(op, q, outs) ==
    /\ OSActive
    /\ \E out \in outs : oret' = Called(op, q, out)
    /\ UNCHANGED <<lowervars, histvars, backend, mongovars, osi>>

OSCount(q) == OSRead("count", q, {OSCountOut(q)})
OSGetAtoms(q) == OSRead("get_atoms", q, {OSGetAtomsOut(q)})
OSProperties(q) == OSRead("properties", q, OSPropertiesOutcomes(q))
OSCountProperties(q) == OSRead("count_properties", q, OSCountPropertiesOutcomes(q))
OSGetTypeOfPropertyOutcomes(prop, category) ==
    IF ~osi.exists THEN {Raise("NotFoundError")}
    ELSE {get_type_of_property(a, prop, category, "IndexError") : a \in Samples(osi.docs, prop)}
OSGetTypeOfProperty(prop, category) ==
    OSRead("get_type_of_property", PropertyArgs(prop, category),
           OSGetTypeOfPropertyOutcomes(prop, category))

OSQueries == EmptyQueries \cup {PyDict(ExistsQuery("e")), PyAst(NameE)}
OSBodies == EmptyQueries \cup {PyDict([query |-> ExistsQuery("e")]), PyDict(ExistsQuery("e"))}

NextOS ==
    \/ \E a \in PushInputs : OSPush(a)
    \/ \E q \in OSQueries : OSDelete(q)
    \/ \E q \in OSQueries : OSCount(q)
    \/ \E q \in OSBodies : OSGetAtoms(q)
    \/ \E q \in OSQueries : OSProperties(q)
    \/ \E q \in OSQueries : OSCountProperties(q)
    \/ \E prop \in TypedProperties, c \in Categories : OSGetTypeOfProperty(prop, c)
    \/ OSDestroy
    \/ OSCreate

(***************************************************************************)
(* ABCD.from_url constructs one of the two databases; the MongoDB one is   *)
(* given a collection name, "atoms" unless the caller names another.       *)
(***************************************************************************)
\* Another index on the same server: missing, or holding a document.
OtherIndexes ==
    {NoIndex, [exists |-> TRUE, docs |-> <<Doc(("e" :> PyInt(1)), <<"e">>, <<>>, <<>>)>>]}

\* The constructor ends with create(): the index of an OpenSearchDatabase
\* exists from the start.
InitDB ==
    /\ backend \in {"mongodb", "opensearch"}
    /\ collection_name \in (IF backend = "mongodb" THEN CollectionNames ELSE {"atoms"})
    /\ mdb = [c \in CollectionNames |-> <<>>]
    /\ mret = NoCall
    /\ nwrites = 0
    /\ renaming = NoCall
    /\ osi \in {[docs |-> <<>>, mapping |-> {}, exists |-> backend = "opensearch", other |-> o] :
                    o \in (IF backend = "opensearch" THEN OtherIndexes ELSE {NoIndex})}
    /\ oret = NoCall

NextDB == NextMongo \/ NextOS

\* An OpenSearchDatabase on its own.
InitSpecOS == InitLower /\ InitHist /\ InitDB /\ backend = "opensearch"
SpecOS == InitSpecOS /\ [][NextOS]_vars

InitSpecDB == InitLower /\ InitHist /\ InitDB
SpecDB == InitSpecDB /\ [][NextDB]_vars


(***************************************************************************)
(* Both databases side by side, each holding what was pushed to it.        *)
(***************************************************************************)
CompiledQueries ==
    {PyAst(NameE), PyAst(Not(NameE)), PyAst(<<"GT", NameE, <<"NUMBER", PyInt(1)>>>>),
     PyAst(<<"AND", NameE, Name("p")>>)}

InitBoth ==
    /\ backend = "both"
    /\ collection_name = "atoms"
    /\ mdb = [c \in CollectionNames |-> <<>>]
    /\ mret = NoCall
    /\ nwrites = 0
    /\ renaming = NoCall
    /\ osi = [docs |-> <<>>, mapping |-> {}, exists |-> TRUE, other |-> NoIndex]
    /\ oret = NoCall

NextBoth ==
    \/ \E a \in PushInputs : MongoPush(a)
    \/ \E q \in CompiledQueries : MongoCount(q)
    \/ \E a \in PushInputs : OSPush(a)
    \/ \E q \in CompiledQueries : OSCount(q)

InitSpecBoth == InitLower /\ InitHist /\ InitBoth
SpecBoth == InitSpecBoth /\ [][NextBoth]_vars

\* C1: for every predicate P compiled from query text, the filter the
\* MongoDB backend obtains for P and the one the OpenSearch backend obtains
\* select the same records when both backends hold the same data.
C1_BackendsSelectSame ==
    (/\ mret # NoCall /\ oret # NoCall
     /\ mret.op = "count" /\ oret.op = "count" /\ mret.q = oret.q
     /\ Collection = osi.docs)
        => /\ mret.out = oret.out
           /\ MongoGetAtomsOut(mret.q) = OSSelect(OSDefault(oret.q))

\* The records written through the database, and its last call.
Stored == IF backend = "opensearch" THEN osi.docs ELSE Collection
LastCall == IF backend = "opensearch" THEN oret ELSE mret
Returned(op) == LastCall # NoCall /\ LastCall.op = op /\ LastCall.out.err = "none"

\* The records the backend finds for the query of the last call.
Matching ==
    IF backend = "opensearch" THEN OSSelect(OSDefault(LastCall.q)).val
    ELSE Find(DbAtoms, parser(LastCall.q).val)

\* C4: an empty or absent predicate (None, empty AST, empty dict) selects
\* every record: count() and get_atoms() without a query cover all stored
\* records, and after delete() without a query count() is 0.
C4_EmptyPredicateSelectsAll ==
    (LastCall # NoCall /\ LastCall.q \in EmptyQueries) =>
        /\ LastCall.op = "count" => LastCall.out = Ok(Len(Stored))
        /\ LastCall.op = "get_atoms" => LastCall.out = Ok(Stored)
        /\ LastCall.op = "delete" =>
                /\ Stored = <<>>
                /\ (IF backend = "opensearch" THEN OSCountOut(PyNone) ELSE MongoCountOut(PyNone))
                        = Ok(0)

FieldNames == {"e", "p", "u", "x", "derived"}
ListedUnder(out, c) == IF c \in DOMAIN out THEN Range(out[c]) ELSE {}

\* C5: in the mapping properties(filter) returns, a field name appears under
\* a category exactly when at least one record matching the filter lists it
\* in the key list of that category.
C5_PropertiesFollowKeyLists ==
    Returned("properties") =>
        \A c \in Categories, f \in FieldNames :
            f \in ListedUnder(LastCall.out.val, c)
                <=> \E i \in 1..Len(Matching) : f \in Range(KeyList(Matching[i], c))

\* properties() with a filter that leaves out a record: a name only that
\* record lists is absent, and e, listed under info only, is under info and
\* not under arrays.
C5_Witness ==
    /\ Returned("properties")
    /\ Len(Matching) > 0 /\ Len(Matching) < Len(Stored)
    /\ "e" \in ListedUnder(LastCall.out.val, "info")
    /\ "e" \notin ListedUnder(LastCall.out.val, "arrays")
    /\ \E i \in 1..Len(Stored) : \E c \in Categories : \E f \in Range(KeyList(Stored[i], c)) :
            f \notin ListedUnder(LastCall.out.val, c)

\* C6: the count count_properties(filter) reports for a field is the number
\* of matching records that carry a non-null value for the field, so it
\* never exceeds the number of matching records.
C6_CountIsRecordsCarrying ==
    Returned("count_properties") =>
        \A f \in DOMAIN LastCall.out.val :
            /\ LastCall.out.val[f].count
                    = Cardinality({i \in 1..Len(Matching) :
                                      /\ f \in DOMAIN Matching[i].fields
                                      /\ Matching[i].fields[f] # None})
            /\ LastCall.out.val[f].count <= Len(Matching)

\* C7: in every stored record each field name appears in at most one of
\* info_keys, arrays_keys and derived_keys.
C7_OneKeyListPerField ==
    \A i \in 1..Len(Stored) : \A c1, c2 \in Categories :
        c1 # c2 => Range(KeyList(Stored[i], c1)) \cap Range(KeyList(Stored[i], c2)) = {}

\* properties() as category -> set of names: the order of a list set aside.
AsSets(out) ==
    IF out.err # "none" THEN out ELSE Ok([c \in DOMAIN out.val |-> Range(out.val[c])])

\* C8: for a fixed record set and filter, properties() and
\* count_properties() return the same mapping, each field's category and
\* dtype included, whatever the order the backend returns groups in and
\* whichever record it hands back as the sample.
C8_SameMappingWhateverTheSample ==
    /\ (LastCall # NoCall /\ LastCall.op = "properties") =>
            \A out \in (IF backend = "opensearch" THEN OSPropertiesOutcomes(LastCall.q)
                        ELSE MongoPropertiesOutcomes(LastCall.q)) :
                AsSets(out) = AsSets(LastCall.out)
    /\ (LastCall # NoCall /\ LastCall.op = "count_properties") =>
            \A out \in (IF backend = "opensearch" THEN OSCountPropertiesOutcomes(LastCall.q)
                        ELSE MongoCountPropertiesOutcomes(LastCall.q)) :
                out = LastCall.out

\* The records the server may sample for the property of the last call.
SampledFrom == IF backend = "opensearch" THEN osi.docs ELSE DbAtoms
TypedCall(category) ==
    /\ Returned("get_type_of_property")
    /\ LastCall.q.v[2] = category
\* The value of the property in a record that carries it.
SampleValues == {a.fields[LastCall.q.v[1]] : a \in Samples(SampledFrom, LastCall.q.v[1])}
NestedList(v) == v.t = "list" /\ Len(v.v) > 0 /\ v.v[1].t = "list" /\ Len(v.v[1].v) > 0
FlatList(v) == v.t = "list" /\ Len(v.v) > 0 /\ v.v[1].t # "list"

\* C13: for a field of category array, type inference on the sampled value
\* reports array(elementType, N x M) when the first element is a sequence,
\* N the outer and M the inner length, and vector(elementType, N) otherwise.
C13_ArrayDescriptorLengths ==
    TypedCall("arrays") =>
        \E v \in SampleValues :
            \/ /\ NestedList(v)
               /\ LastCall.out.val =
                    [shape |-> "array", elem |-> map_types[v.v[1].v[1].t],
                     n |-> ToString(Len(v.v)), m |-> ToString(Len(v.v[1].v))]
            \/ /\ FlatList(v)
               /\ LastCall.out.val =
                    [shape |-> "vector", elem |-> map_types[v.v[1].t],
                     n |-> ToString(Len(v.v)), m |-> ""]

\* C13 as amended: the first dimension is the letter N, whatever the outer
\* length; M is the length of the first element.
C13_ArrayDescriptorSymbolicN ==
    TypedCall("arrays") =>
        \E v \in SampleValues :
            \/ /\ NestedList(v)
               /\ LastCall.out.val =
                    [shape |-> "array", elem |-> map_types[v.v[1].v[1].t],
                     n |-> "N", m |-> ToString(Len(v.v[1].v))]
            \/ /\ FlatList(v)
               /\ LastCall.out.val =
                    [shape |-> "vector", elem |-> map_types[v.v[1].t], n |-> "N", m |-> ""]

\* An array of one row of two described: N stands where 1 would, M is 2.
C13_Witness ==
    /\ TypedCall("arrays")
    /\ LastCall.out.val.shape = "array"
    /\ LastCall.out.val.m = "2"
    /\ \A v \in SampleValues : NestedList(v) /\ Len(v.v) = 1 /\ Len(v.v[1].v) = 2

\* C14: get_type_of_property(field, category) fails with FieldNotFoundError,
\* and with no other error, when no stored record has the field.
C14_MissingFieldNotFound ==
    (/\ LastCall # NoCall /\ LastCall.op = "get_type_of_property"
     /\ \A i \in 1..Len(Stored) : LastCall.q.v[1] \notin DOMAIN Stored[i].fields) =>
        LastCall.out = Raise("FieldNotFoundError")

\* C15: starting from a freshly created empty index, after any sequence of
\* push calls count() with no query is the number of Atoms objects pushed:
\* every push of one object adds one record, also when the object is stored
\* already, and a push of a list of n objects adds n.
C15_PushAddsEveryObject ==
    /\ [](backend = "opensearch" /\ oret = NoCall => OSCountOut(PyNone) = Ok(0))
    /\ [][\A a \in PushInputs :
            (backend = "opensearch" /\ OSPush(a) /\ OSCountOut(PyNone).err = "none") =>
                (OSCountOut(PyNone))' = Ok(OSCountOut(PyNone).val + Len(a.v))]_vars

\* count() returning 2 with the same object pushed twice.
C15_Witness ==
    /\ backend = "opensearch"
    /\ oret # NoCall /\ oret.op = "count" /\ oret.q = PyNone /\ oret.out = Ok(2)
    /\ Len(osi.docs) = 2 /\ osi.docs[1] = osi.docs[2]

\* C16: after any sequence of create and destroy calls the index exists
\* exactly when the last call was create (or the constructor); create and
\* destroy complete without error whatever the state of the index, and
\* neither changes another index.
C16_IndexExistsIffCreated ==
    /\ []((backend = "opensearch" /\ oret = NoCall) => osi.exists)
    /\ []((oret # NoCall /\ oret.op = "create") => (osi.exists /\ oret.out = Ok(None)))
    /\ []((oret # NoCall /\ oret.op = "destroy") => (~osi.exists /\ oret.out = Ok(None)))
    /\ [][(OSCreate \/ OSDestroy) => osi'.other = osi.other]_vars

\* create() called on an index that exists and holds documents.
C16_Witness ==
    /\ oret # NoCall /\ oret.op = "create" /\ oret.out = Ok(None)
    /\ osi.exists /\ Len(osi.docs) > 0 /\ osi.other.exists

\* The names properties() may list, under any category.
ListedNames ==
    UNION {UNION {Range(out.val[c]) : c \in DOMAIN out.val} :
            out \in {o \in MongoPropertiesOutcomes(PyNone) : o.err = "none"}}

\* C17: after delete_property(name) with no query, for a name of any
\* category (info, arrays or derived), properties() lists the name under no
\* category and a following count_properties() returns without error.
C17_DeletePropertyAnyCategory ==
    [][\A name \in DeletedNames :
        MongoDeleteProperty(name, PyNone) =>
            /\ (name \notin ListedNames)'
            /\ (\A out \in MongoCountPropertiesOutcomes(PyNone) : out.err = "none")']_vars

\* The values of a field in the records push wrote.
WrittenValues(name) ==
    LET having == SelectSeq(Collection, LAMBDA d : name \in DOMAIN d.fields)
    IN [i \in 1..Len(having) |-> having[i].fields[name]]

\* C18: for a MongoDatabase constructed with any collection_name, the
\* records push wrote are the records count(), get_atoms(), property() and
\* properties() read: count() is the number of records pushed and equals
\* the 'number of confs' of info().
C18_ReadsSeeWhatPushWrote ==
    (backend = "mongodb" /\ mret # NoCall) =>
        /\ (mret.op = "count" /\ mret.q \in EmptyQueries) =>
                /\ mret.out = Ok(Len(Collection))
                /\ mret.out = Ok(MongoInfoOut.val.number_of_confs)
        /\ (mret.op = "get_atoms" /\ mret.q \in EmptyQueries) => mret.out = Ok(Collection)
        /\ mret.op = "property" => mret.out = Ok(WrittenValues(mret.q.v[1]))
        /\ (mret.op = "properties" /\ mret.q \in EmptyQueries /\ mret.out.err = "none") =>
                \A c \in Categories :
                    Range(mret.out.val[c])
                        = UNION {Range(KeyList(Collection[i], c)) : i \in 1..Len(Collection)}

(***************************************************************************)
(* rename_property while other clients read and write the same collection. *)
(***************************************************************************)
InitRename ==
    /\ backend = "mongodb"
    /\ collection_name \in CollectionNames
    /\ mdb = [c \in CollectionNames |-> <<>>]
    /\ mret = NoCall
    /\ nwrites = 0
    /\ renaming = NoCall
    /\ osi = [docs |-> <<>>, mapping |-> {}, exists |-> FALSE, other |-> NoIndex]
    /\ oret = NoCall

NextRename ==
    \/ \E a \in PushInputs : MongoPush(a)
    \/ \E r \in Renames, q \in WriteQueries : MongoRenameFirstUpdate(r[1], r[2], q)
    \/ MongoRenameSecondUpdate
    \/ \E q \in EmptyQueries \cup {PyAst(NameE)} : MongoGetAtoms(q)
    \/ \E q \in FilterQueries : MongoProperties(q)

InitSpecRename == InitLower /\ InitHist /\ InitRename
SpecRename == InitSpecRename /\ [][NextRename]_vars

\* A record that lists the name in a key list carries a field of that name.
ListedIsCarried(doc, name) ==
    (\E c \in Categories : name \in Range(KeyList(doc, c))) => name \in DOMAIN doc.fields

\* C19: rename_property(name, new_name, query) is atomic for the other
\* clients and keeps the key lists in line with the stored fields: no
\* operation interleaved with it reads a record that lists new_name in
\* info_keys and has no field new_name, and once it has returned every
\* matching record lists new_name in a key list only if it carries the field.
C19_RenameAtomic ==
    /\ (renaming # NoCall /\ mret # NoCall /\ mret.op = "get_atoms" /\ mret.out.err = "none") =>
            \A i \in 1..Len(mret.out.val) :
                renaming.new_name \in Range(KeyList(mret.out.val[i], "info"))
                    => renaming.new_name \in DOMAIN mret.out.val[i].fields
    /\ (renaming = NoCall /\ mret # NoCall /\ mret.op = "rename_property"
            /\ mret.out.err = "none") =>
            \A i \in 1..Len(Collection) :
                MongoMatch(parser(mret.q).val, Collection[i]) =>
                    \A r \in Renames : ListedIsCarried(Collection[i], r[2])

====
